---- MODULE Spec2Model ----
(***************************************************************************)
(* Model of src/src/index.ts.                                               *)
(*                                                                         *)
(* Spec: the hierarchical (Jira) export: getMonthKeyAndLabel,              *)
(* parseDateTime, compareMatchesByDateTime, formatDueDate, exportToJiraCSV,*)
(* and the CSV files exportToJiraCSV and exportToCSV write.                *)
(* MainSpec: one run of main with its top-level catch handler.             *)
(* IndexSpec: getFilesByTypeAndTeam and generateFancyIndexHtml on a        *)
(* directory listing.                                                      *)
(*                                                                         *)
(* A JavaScript string is a sequence of one-character strings, so that     *)
(* split, padStart, Number and localeCompare are computed on the text.     *)
(* The alphabet of the inputs is the decimal digits, ".", ":" and the      *)
(* letter "x".                                                             *)
(***************************************************************************)
EXTENDS Integers, Sequences, FiniteSets, TLC

VARIABLES
    mode,          \* "key": one call of getMonthKeyAndLabel; "export": one call of exportToJiraCSV;
                   \* "csv": one call of exportToCSV
    pc,            \* "ready" before the call, "done" after it returned, "threw" after it threw
    datum,         \* the argument of getMonthKeyAndLabel
    keyOut,        \* the { key, label } it returned
    matches,       \* the caller's list handed to exportToJiraCSV or exportToCSV
    monthEntries,  \* the sorted [key, { label, matches }] entries
    monthIdByKey,  \* Map key -> Work item ID of the month's Task row
    jiraRows,      \* the rows handed to the CSV parser, in order
    \* one run of main
    at,            \* where main stands: the await it is suspended at, or its end
    teamIndex,     \* the position in TEAMS of the loop's current team
    timestamp,     \* const timestamp = getTimestamp()
    allMatches,    \* the accumulation list of the combined exports
    teamMatches,   \* the mapped records of the current team
    files,         \* the files written into EXPORT_DIR, in the order of the writes
    console,       \* the console.error calls, in order
    exitCode,      \* the exit status of the process, NoExit while it runs
    history,       \* the operations of the run, begun and ended, in order
    \* one call of the index generator
    imode,         \* "byTeam": getFilesByTypeAndTeam; "page", "built": generateFancyIndexHtml
    ipc,           \* "ready" before the call, "done" after it returned, "threw" after it threw
    dir,           \* readdirSync(dir) with the stats of each file
    ext,           \* the extension asked of getFilesByTypeAndTeam
    byTeamOut,     \* the object getFilesByTypeAndTeam returned
    sections,      \* the four sections of the page, each an object team -> files
    built          \* the team name and the timestamp the directory's files were built from

exportVars == <<mode, pc, datum, keyOut, matches, monthEntries, monthIdByKey, jiraRows>>

mainVars == <<at, teamIndex, timestamp, allMatches, teamMatches, files, console, exitCode, history>>

indexVars == <<imode, ipc, dir, ext, byTeamOut, sections, built>>

vars == <<exportVars, mainVars, indexVars>>

----------------------------------------------------------------------------
(* Strings *)

Digits == <<"0", "1", "2", "3", "4", "5", "6", "7", "8", "9">>

IsDigit(c) == \E i \in 1..Len(Digits) : Digits[i] = c

DigitVal(c) == (CHOOSE i \in 1..Len(Digits) : Digits[i] = c) - 1

\* The value a destructuring or an index yields past the end of an array.
undefined == <<"undefined">>

OHNE_DATUM == <<"o", "h", "n", "e", "-", "d", "a", "t", "u", "m">>

\* String.prototype.split(sep): the pieces between the separators; the empty
\* string gives one empty piece.
RECURSIVE splitFrom(_, _, _, _, _)
splitFrom(s, sep, i, cur, acc) ==
    IF i > Len(s) THEN Append(acc, cur)
    ELSE IF s[i] = sep THEN splitFrom(s, sep, i + 1, <<>>, Append(acc, cur))
    ELSE splitFrom(s, sep, i + 1, Append(cur, s[i]), acc)

split(s, sep) == splitFrom(s, sep, 1, <<>>, <<>>)

\* Array destructuring / indexing: undefined past the end.
At(parts, i) == IF i <= Len(parts) THEN parts[i] ELSE undefined

RECURSIVE DecVal(_)
DecVal(t) ==
    IF t = <<>> THEN 0
    ELSE 10 * DecVal(SubSeq(t, 1, Len(t) - 1)) + DigitVal(t[Len(t)])

RECURSIVE HexVal(_)
HexVal(t) ==
    IF t = <<>> THEN 0
    ELSE 16 * HexVal(SubSeq(t, 1, Len(t) - 1)) + DigitVal(t[Len(t)])

AllDigits(t) == \A i \in 1..Len(t) : IsDigit(t[i])

\* Number(x) on a string of the alphabet: "" is 0, a run of digits is its
\* decimal value (leading zeros allowed), "0x" and a run of digits is the
\* hexadecimal value, anything else (undefined included) is NaN.
Number(t) ==
    IF t = <<>> THEN [nan |-> FALSE, val |-> 0]
    ELSE IF t = undefined THEN [nan |-> TRUE, val |-> 0]
    ELSE IF AllDigits(t) THEN [nan |-> FALSE, val |-> DecVal(t)]
    ELSE IF Len(t) >= 3 /\ t[1] = "0" /\ t[2] = "x" /\ AllDigits(SubSeq(t, 3, Len(t)))
         THEN [nan |-> FALSE, val |-> HexVal(SubSeq(t, 3, Len(t)))]
         ELSE [nan |-> TRUE, val |-> 0]

\* !n for a number: NaN and 0 are falsy.
Falsy(n) == n.nan \/ n.val = 0

\* n || 0 for a number n.
OrZero(n) == IF Falsy(n) THEN 0 ELSE n.val

\* Number(x) || 0
NumberOrZero(t) == OrZero(Number(t))

\* !s for a string or undefined.
Empty(s) == s = <<>> \/ s = undefined

\* Variant of padStart: the string is returned as it is.
padStart_none(s, targetLength, padString) == s

\* String.prototype.padStart(targetLength, padString), padString one character.
RECURSIVE padStart(_, _, _)
padStart(s, targetLength, padString) ==
    IF Len(s) >= targetLength THEN s
    ELSE padStart(<<padString>> \o s, targetLength, padString)

\* Number -> string, as a template literal renders a positive integer.
RECURSIVE ToStr(_)
ToStr(n) == IF n < 10 THEN <<Digits[n + 1]>> ELSE ToStr(n \div 10) \o <<Digits[(n % 10) + 1]>>

\* Collation rank of the characters that occur in month keys ("-", the
\* digits and "x"): punctuation before digits before letters.
CharRank(c) ==
    IF c = "-" THEN 0
    ELSE IF IsDigit(c) THEN 1 + DigitVal(c)
    ELSE 11

\* String.prototype.localeCompare: negative, zero or positive.
RECURSIVE localeCompare(_, _)
localeCompare(a, b) ==
    IF a = <<>> /\ b = <<>> THEN 0
    ELSE IF a = <<>> THEN -1
    ELSE IF b = <<>> THEN 1
    ELSE IF CharRank(Head(a)) # CharRank(Head(b)) THEN CharRank(Head(a)) - CharRank(Head(b))
    ELSE localeCompare(Tail(a), Tail(b))

----------------------------------------------------------------------------
(* exportToJiraCSV and its helpers *)

MONTH_NAMES ==
    <<"Januar", "Februar", "März", "April", "Mai", "Juni", "Juli", "August",
      "September", "Oktober", "November", "Dezember">>

OhneDatum == [key |-> OHNE_DATUM, label |-> <<"Ohne Datum">>]

\* parseDateTime(date, time): [year, month, day, hour, minute], each
\* Number(token) || 0.
parseTokens(dparts, tparts) ==
    <<NumberOrZero(At(dparts, 3)), NumberOrZero(At(dparts, 2)), NumberOrZero(At(dparts, 1)),
      NumberOrZero(At(tparts, 1)), NumberOrZero(At(tparts, 2))>>

parseDateTime(date, time) ==
    CHOOSE parsed \in {parseTokens(dparts, tparts) : dparts \in {split(date, ".")},
                                                     tparts \in {split(time, ":")}} : TRUE

formatDueDate(d) ==
    IF Empty(d) THEN <<>>
    ELSE LET parts == split(d, ".")
         IN  IF Len(parts) # 3 THEN <<>>
             ELSE IF Empty(parts[1]) \/ Empty(parts[2]) \/ Empty(parts[3]) THEN <<>>
             ELSE parts[3] \o <<"-">> \o padStart(parts[2], 2, "0")
                           \o <<"-">> \o padStart(parts[1], 2, "0")

\* Variant of getMonthKeyAndLabel: the token count is tested with
\* parts.length < 3 instead of parts.length !== 3.
getMonthKeyAndLabel_atLeastThree(d) ==
    IF Empty(d) THEN OhneDatum
    ELSE LET parts == split(d, ".")
         IN  IF Len(parts) < 3 THEN OhneDatum
             ELSE LET monthStr == parts[2]
                      yearStr == parts[3]
                      month == Number(monthStr)
                      year == Number(yearStr)
                  IN  IF Falsy(month) \/ month.val < 1 \/ month.val > 12 \/ Falsy(year)
                      THEN OhneDatum
                      ELSE [key |-> yearStr \o <<"-">> \o padStart(monthStr, 2, "0"),
                            label |-> <<MONTH_NAMES[month.val], " ">> \o ToStr(year.val)]

getMonthKeyAndLabel(d) ==
    IF Empty(d) THEN OhneDatum
    ELSE LET parts == split(d, ".")
         IN  IF Len(parts) # 3 THEN OhneDatum
             ELSE LET monthStr == parts[2]
                      yearStr == parts[3]
                      month == Number(monthStr)
                      year == Number(yearStr)
                  IN  IF Falsy(month) \/ month.val < 1 \/ month.val > 12 \/ Falsy(year)
                      THEN OhneDatum
                      ELSE [key |-> yearStr \o <<"-">> \o padStart(monthStr, 2, "0"),
                            label |-> <<MONTH_NAMES[month.val], " ">> \o ToStr(year.val)]

\* Variant of addToGroups: an existing group is replaced (groups.set) instead
\* of extended (existing.matches.push).
addToGroups_overwrite(groups, m) ==
    LET kl == getMonthKeyAndLabel(m.datum)
    IN  IF \E i \in 1..Len(groups) : groups[i].key = kl.key
        THEN [i \in 1..Len(groups) |->
                 IF groups[i].key = kl.key
                 THEN [groups[i] EXCEPT !.matches = <<m>>]
                 ELSE groups[i]]
        ELSE Append(groups, [key |-> kl.key, label |-> kl.label, matches |-> <<m>>])

\* One iteration of the grouping loop: groups is the Map in insertion order.
addToGroups(groups, m) ==
    LET kl == getMonthKeyAndLabel(m.datum)
    IN  IF \E i \in 1..Len(groups) : groups[i].key = kl.key
        THEN [i \in 1..Len(groups) |->
                 IF groups[i].key = kl.key
                 THEN [groups[i] EXCEPT !.matches = Append(@, m)]
                 ELSE groups[i]]
        ELSE Append(groups, [key |-> kl.key, label |-> kl.label, matches |-> <<m>>])

RECURSIVE groupMatches(_, _)
groupMatches(ms, groups) ==
    IF ms = <<>> THEN groups
    ELSE groupMatches(Tail(ms), addToGroups(groups, Head(ms)))

\* The comparator of monthEntries.sort.
compareMonthEntries(a, b) ==
    IF a.key = OHNE_DATUM /\ b.key = OHNE_DATUM THEN 0
    ELSE IF a.key = OHNE_DATUM THEN 1
    ELSE IF b.key = OHNE_DATUM THEN -1
    ELSE localeCompare(a.key, b.key)

\* Variant of compareParsed: the time of day is not compared.
compareParsed_dateOnly(pa, pb) ==
    IF pa[1] # pb[1] THEN pa[1] - pb[1]
    ELSE IF pa[2] # pb[2] THEN pa[2] - pb[2]
    ELSE pa[3] - pb[3]

\* The comparison of the two parsed tuples [y, m, d, h, min].
compareParsed(pa, pb) ==
    IF pa[1] # pb[1] THEN pa[1] - pb[1]
    ELSE IF pa[2] # pb[2] THEN pa[2] - pb[2]
    ELSE IF pa[3] # pb[3] THEN pa[3] - pb[3]
    ELSE IF pa[4] # pb[4] THEN pa[4] - pb[4]
    ELSE pa[5] - pb[5]

compareMatchesByDateTime(a, b) ==
    compareParsed(parseDateTime(a.datum, a.uhrzeit), parseDateTime(b.datum, b.uhrzeit))

\* The comparator handed to Array.prototype.sort, by name.
apply(cmp, a, b) ==
    IF cmp = "compareMonthEntries" THEN compareMonthEntries(a, b)
    ELSE compareMatchesByDateTime(a, b)

\* Array.prototype.sort(cmp): a stable sort; insertion from the left.
RECURSIVE insertSorted(_, _, _)
insertSorted(cmp, sorted, x) ==
    IF sorted = <<>> THEN <<x>>
    ELSE IF apply(cmp, sorted[Len(sorted)], x) > 0
         THEN Append(insertSorted(cmp, SubSeq(sorted, 1, Len(sorted) - 1), x), sorted[Len(sorted)])
         ELSE Append(sorted, x)

RECURSIVE sortFrom(_, _, _)
sortFrom(cmp, arr, sorted) ==
    IF arr = <<>> THEN sorted
    ELSE sortFrom(cmp, Tail(arr), insertSorted(cmp, sorted, Head(arr)))

sort(cmp, arr) == sortFrom(cmp, arr, <<>>)

\* Variant of sortMonthEntries: the entries stay in Map insertion order.
sortMonthEntries_unsorted(groups) == groups

sortMonthEntries(groups) == sort("compareMonthEntries", groups)

\* Variant of sortMatches: the month's matches stay in input order.
sortMatches_unsorted(monthMatches) == monthMatches

sortMatches(monthMatches) == sort("compareMatchesByDateTime", monthMatches)

taskRow(entry, id) ==
    [Summary |-> IF entry.key = OHNE_DATUM THEN <<"Spiele ohne Datum">>
                 ELSE <<"Spiele Monat ">> \o entry.label,
     DueDate |-> <<>>,
     IssueType |-> "Task",
     WorkItemID |-> id,
     Parent |-> <<>>]

\* src is the match the Summary and the Description are rendered from.
subTaskRow(m, id, parentId) ==
    [src |-> m,
     DueDate |-> formatDueDate(m.datum),
     IssueType |-> "Sub-task",
     WorkItemID |-> id,
     Parent |-> parentId]

\* Variant of parentLoop: the map records the counter after the increment
\* (monthIdByKey.set(key, nextId) instead of (key, id)).
RECURSIVE parentLoop_idAfterIncrement(_, _)
parentLoop_idAfterIncrement(entries, st) ==
    IF entries = <<>> THEN st
    ELSE LET e == Head(entries)
             id == st.nextId
         IN  parentLoop_idAfterIncrement(Tail(entries),
                 [nextId |-> id + 1,
                  monthIdByKey |-> [k \in DOMAIN st.monthIdByKey \cup {e.key} |->
                                       IF k = e.key THEN id + 1 ELSE st.monthIdByKey[k]],
                  jiraRows |-> Append(st.jiraRows, taskRow(e, id))])

\* The parent loop: one Task row per entry, ids from nextId on.
RECURSIVE parentLoop(_, _)
parentLoop(entries, st) ==
    IF entries = <<>> THEN st
    ELSE LET e == Head(entries)
             id == st.nextId
         IN  parentLoop(Tail(entries),
                 [nextId |-> id + 1,
                  monthIdByKey |-> [k \in DOMAIN st.monthIdByKey \cup {e.key} |->
                                       IF k = e.key THEN id ELSE st.monthIdByKey[k]],
                  jiraRows |-> Append(st.jiraRows, taskRow(e, id))])

\* Variant of pushChildren: the counter is read but not advanced
\* (const id = nextId instead of nextId++).
RECURSIVE pushChildren_noIncrement(_, _, _)
pushChildren_noIncrement(sortedMatches, parentId, st) ==
    IF sortedMatches = <<>> THEN st
    ELSE pushChildren_noIncrement(Tail(sortedMatches), parentId,
             [st EXCEPT !.jiraRows = Append(@, subTaskRow(Head(sortedMatches), st.nextId, parentId))])

\* The inner child loop over the sorted matches of one month.
RECURSIVE pushChildren(_, _, _)
pushChildren(sortedMatches, parentId, st) ==
    IF sortedMatches = <<>> THEN st
    ELSE pushChildren(Tail(sortedMatches), parentId,
             [st EXCEPT !.nextId = @ + 1,
                        !.jiraRows = Append(@, subTaskRow(Head(sortedMatches), st.nextId, parentId))])

\* The child loop over the months.
RECURSIVE childLoop(_, _)
childLoop(entries, st) ==
    IF entries = <<>> THEN st
    ELSE LET e == Head(entries)
         IN  IF e.key \notin DOMAIN st.monthIdByKey \/ st.monthIdByKey[e.key] = 0
             THEN childLoop(Tail(entries), st)
             ELSE childLoop(Tail(entries),
                      pushChildren(sortMatches(e.matches), st.monthIdByKey[e.key], st))

NoMonthIds == [k \in {} |-> 0]

\* What the function leaves behind once both loops have run.
result(entries, st) ==
    [monthEntries |-> entries, monthIdByKey |-> st.monthIdByKey, jiraRows |-> st.jiraRows]

\* The two row loops over the sorted entries, sharing the counter nextId.
buildRows(entries) ==
    result(entries,
           childLoop(entries,
                     parentLoop(entries,
                                [nextId |-> 1, monthIdByKey |-> NoMonthIds, jiraRows |-> <<>>])))

\* The whole function: what it leaves in monthEntries, monthIdByKey, jiraRows.
exportToJiraCSV(ms) ==
    IF Len(ms) = 0
    THEN [monthEntries |-> <<>>, monthIdByKey |-> NoMonthIds, jiraRows |-> <<>>]
    ELSE buildRows(sortMonthEntries(groupMatches(ms, <<>>)))

\* "\uFEFF", the byte-order mark.
BOM == [bom |-> "U+FEFF"]

\* fields: ["Summary", "Description", "Due Date", "Issue Type", "Work item ID", "Parent"]
JiraFields == <<"Summary", "Description", "Due Date", "Issue Type", "Work item ID", "Parent">>

\* new Json2CsvParser({ header: true }): no fields option.
NoFields == <<>>

\* The keys of an ExportMatch, the header json2csv takes from the data when
\* it has no fields option.
ExportMatchKeys ==
    <<"mannschaft", "wettbewerb", "wettbewerbstyp", "datum", "uhrzeit", "heim", "gast",
      "ergebnis", "vorabVeröffentlicht">>

\* Variant of parse: the parser writes no header row (header: false).
parse_rowsOnly(data, fields) ==
    IF fields = NoFields /\ data = <<>>
    THEN [threw |-> TRUE, csv |-> <<>>]
    ELSE [threw |-> FALSE, csv |-> [i \in 1..Len(data) |-> [row |-> data[i]]]]

\* parser.parse(data): the header row and one row for each element of data,
\* in order. Without a fields option the parser takes the header from the
\* data and throws ('Data should not be empty or the "fields" option should
\* be included') when there is none.
parse(data, fields) ==
    IF fields = NoFields /\ data = <<>>
    THEN [threw |-> TRUE, csv |-> <<>>]
    ELSE [threw |-> FALSE,
          csv |-> <<[header |-> IF fields = NoFields THEN ExportMatchKeys ELSE fields]>>
                      \o [i \in 1..Len(data) |-> [row |-> data[i]]]]

\* Variant of csvWithBom: the text is written as it is.
csvWithBom_plain(csv) == csv

\* const csvWithBom = "\uFEFF" + csv
csvWithBom(csv) == <<BOM>> \o csv

\* writeFileSync(path.join(EXPORT_DIR, filename), csvWithBom, "utf8"): the
\* file a CSV exporter leaves in the export directory, with what was written
\* to it.
CsvFile(name, by, csv) ==
    [name |-> name, by |-> by, content |-> csvWithBom(csv), encoding |-> "utf8"]

\* Variant of callerList: the list handed in is sorted in place
\* (matches.sort(compareMatchesByDateTime)).
callerList_sortedInPlace(ms) == sortMatches(ms)

\* The caller's array after the call. The function reads it in the loop
\* for (const m of matches) and has no statement that writes to it: the list
\* of a group is a new array ([m]) and the sort works on a copy
\* ([...monthMatches]).
callerList(ms) == ms

----------------------------------------------------------------------------
(* Inputs *)

MaxMatches == 3

\* The filename argument of exportToJiraCSV.
filename == <<"J", "i", "r", "a", ".", "c", "s", "v">>

DayTokens == {<<>>, <<"0", "1">>, <<"1", "5">>, <<"1">>, <<"x", "x">>}

MonthTokens == {<<>>, <<"0">>, <<"0", "0">>, <<"3">>, <<"0", "3">>, <<"0", "0", "3">>, <<"1", "2">>, <<"1", "3">>, <<"x", "x">>, <<"1", "x">>, <<"0", "x", "3">>}

YearTokens == {<<>>, <<"0", "0", "0", "0">>, <<"9", "9", "9">>, <<"2", "0", "2", "4">>, <<"2", "0", "2", "5">>, <<"x", "x">>}

Date(dayStr, monthStr, yearStr) == dayStr \o <<".">> \o monthStr \o <<".">> \o yearStr

ThreeTokenDates == {Date(d, m, y) : d \in DayTokens, m \in MonthTokens, y \in YearTokens}

\* The arguments of getMonthKeyAndLabel: no, one, two, three and four tokens.
DateStrings ==
    YearTokens
    \cup {m \o <<".">> \o y : m \in MonthTokens, y \in YearTokens}
    \cup ThreeTokenDates
    \cup {d \o <<".", "1">> : d \in ThreeTokenDates}

\* An ExportMatch, reduced to the two fields the export's structure reads.
Match(d, t) == [datum |-> d, uhrzeit |-> t]

Records ==
    { Match(<<"1", "5", ".", "0", "3", ".", "2", "0", "2", "5">>, <<"1", "8", ":", "3", "0">>),
      Match(<<>>, <<>>),
      Match(<<"0", "1", ".", "0", "3", ".", "2", "0", "2", "5">>, <<"1", "8", ":", "3", "0">>),
      Match(<<"1", ".", "3", ".", "2", "0", "2", "5">>, <<"1", "8", ":", "3", "0">>),
      Match(<<"0", "1", ".", "0", "3", ".", "2", "0", "2", "5">>, <<"9", ":", "0", "5">>),
      Match(<<"0", "1", ".", "0", "3", ".", "2", "0", "2", "5">>, <<>>),
      Match(<<"0", "1", ".", "1", "2", ".", "2", "0", "2", "4">>, <<"1", "8", ":", "3", "0">>),
      Match(<<"0", "1", ".", "0", "3", ".", "9", "9", "9">>, <<"1", "8", ":", "3", "0">>),
      Match(<<"0", "1", ".", "0", "0", "3", ".", "2", "0", "2", "5">>, <<"1", "8", ":", "3", "0">>),
      Match(<<"0", "1", ".", "1", "3", ".", "2", "0", "2", "5">>, <<"1", "8", ":", "3", "0">>),
      Match(<<"x", "x", ".", "0", "3", ".", "2", "0", "2", "5">>, <<"1", "8", ":", "3", "0">>),
      Match(<<"2", ".", "0", "3", ".", "2", "0", "2", "5">>, <<"x", "x">>) }

MatchLists == UNION {[1..n -> Records] : n \in 0..MaxMatches}

----------------------------------------------------------------------------
(* Specification *)

\* The process has no exit status while it runs.
NoExit == "none"

\* No run of main is under way.
MainIdle ==
    /\ at = "idle"
    /\ teamIndex = 0
    /\ timestamp = <<>>
    /\ allMatches = <<>>
    /\ teamMatches = <<>>
    /\ files = <<>>
    /\ console = <<>>
    /\ exitCode = NoExit
    /\ history = <<>>

\* No call of the index generator is under way.
IndexIdle ==
    /\ imode = "idle"
    /\ ipc = "idle"
    /\ dir = <<>>
    /\ ext = <<>>
    /\ byTeamOut = <<>>
    /\ sections = <<>>
    /\ built = <<>>

Init ==
    /\ MainIdle
    /\ IndexIdle
    /\ pc = "ready"
    /\ keyOut = <<>>
    /\ monthEntries = <<>>
    /\ monthIdByKey = NoMonthIds
    /\ jiraRows = <<>>
    /\ \/ mode = "key" /\ datum \in DateStrings /\ matches = <<>>
       \/ mode = "export" /\ datum = <<>> /\ matches \in MatchLists
       \/ mode = "csv" /\ datum = <<>> /\ matches \in MatchLists

\* const { key, label } = getMonthKeyAndLabel(m.datum)
CallGetMonthKeyAndLabel ==
    /\ mode = "key"
    /\ pc = "ready"
    /\ keyOut' = getMonthKeyAndLabel(datum)
    /\ pc' = "done"
    /\ UNCHANGED <<mode, datum, matches, monthEntries, monthIdByKey, jiraRows>>
    /\ UNCHANGED <<mainVars, indexVars>>

\* exportToJiraCSV(matches, filename)
CallExportToJiraCSV ==
    /\ mode = "export"
    /\ pc = "ready"
    /\ \E r \in {exportToJiraCSV(matches)} :
           /\ monthEntries' = r.monthEntries
           /\ monthIdByKey' = r.monthIdByKey
           /\ jiraRows' = r.jiraRows
           /\ files' = Append(files, CsvFile(filename, "exportToJiraCSV",
                                              parse(r.jiraRows, JiraFields).csv))
    /\ matches' = callerList(matches)
    /\ pc' = "done"
    /\ UNCHANGED <<mode, datum, keyOut>>
    /\ UNCHANGED <<at, teamIndex, timestamp, allMatches, teamMatches, console, exitCode, history>>
    /\ UNCHANGED indexVars

\* exportToCSV(matches, filename)
CallExportToCSV ==
    /\ mode = "csv"
    /\ pc = "ready"
    /\ \E r \in {parse(matches, NoFields)} :
           IF r.threw
           THEN /\ pc' = "threw"
                /\ UNCHANGED files
           ELSE /\ pc' = "done"
                /\ files' = Append(files, CsvFile(filename, "exportToCSV", r.csv))
    /\ UNCHANGED <<mode, datum, keyOut, matches, monthEntries, monthIdByKey, jiraRows>>
    /\ UNCHANGED <<at, teamIndex, timestamp, allMatches, teamMatches, console, exitCode, history>>
    /\ UNCHANGED indexVars

Next == CallGetMonthKeyAndLabel \/ CallExportToJiraCSV \/ CallExportToCSV

Spec == Init /\ [][Next]_vars

----------------------------------------------------------------------------
(* Properties of the export *)

Exported == mode = "export" /\ pc = "done"

KeyDone == mode = "key" /\ pc = "done"

RowIdx == 1..Len(jiraRows)

TaskIdx == {i \in RowIdx : jiraRows[i].IssueType = "Task"}

SubTaskIdx == {i \in RowIdx : jiraRows[i].IssueType = "Sub-task"}

\* How often r occurs in the sequence ms.
Occurrences(ms, r) == Cardinality({i \in 1..Len(ms) : ms[i] = r})

\* The groups whose list holds r.
GroupsOf(r) == {g \in 1..Len(monthEntries) : Occurrences(monthEntries[g].matches, r) > 0}

\* C1: every input record is in exactly one month group and yields exactly
\* one Sub-task row: nothing is dropped, nothing is duplicated, and there are
\* as many Sub-task rows as input records.
C1_EveryMatchOneSubTask ==
    Exported =>
        /\ Cardinality(SubTaskIdx) = Len(matches)
        /\ \A r \in Records :
              /\ Cardinality({i \in SubTaskIdx : jiraRows[i].src = r}) = Occurrences(matches, r)
              /\ Occurrences(matches, r) > 0 =>
                    /\ Cardinality(GroupsOf(r)) = 1
                    /\ \A g \in GroupsOf(r) :
                          Occurrences(monthEntries[g].matches, r) = Occurrences(matches, r)

\* Three records, two of them equal and in one month, the third in another.
C1_Witness ==
    /\ Exported
    /\ Len(matches) = 3
    /\ matches[1] = matches[3]
    /\ Len(monthEntries) = 2
    /\ Cardinality(SubTaskIdx) = 3

\* Lexicographic <= on tuples of numbers of the same length.
RECURSIVE TupleLeq(_, _)
TupleLeq(a, b) ==
    IF a = <<>> THEN TRUE
    ELSE IF Head(a) # Head(b) THEN Head(a) < Head(b)
    ELSE TupleLeq(Tail(a), Tail(b))

\* The numeric value of a date or time component: a run of digits counts as
\* its decimal value, a missing, empty or other token as zero.
Component(parts, i) ==
    IF i <= Len(parts) /\ AllDigits(parts[i]) THEN DecVal(parts[i]) ELSE 0

\* (year, month, day, hour, minute) of a record.
DateTimeOf(m) ==
    LET dp == split(m.datum, ".")
        tp == split(m.uhrzeit, ":")
    IN  <<Component(dp, 3), Component(dp, 2), Component(dp, 1), Component(tp, 1), Component(tp, 2)>>

\* C2: Work item IDs are unique and strictly increasing in row order: the G
\* Task rows carry 1..G in group order, the N Sub-task rows carry G+1..G+N,
\* group by group in group order and in date-time order within a group.
C2_IdsSequential ==
    Exported =>
        LET G == Len(monthEntries)
            N == Len(matches)
        IN  /\ Len(jiraRows) = G + N
            /\ \A i \in RowIdx : jiraRows[i].WorkItemID = i
            /\ \A i, j \in RowIdx : i < j => jiraRows[i].WorkItemID < jiraRows[j].WorkItemID
            /\ TaskIdx = 1..G
            /\ SubTaskIdx = (G + 1)..(G + N)
            /\ \A g \in 1..G : monthIdByKey[monthEntries[g].key] = jiraRows[g].WorkItemID
            /\ \A i, j \in SubTaskIdx :
                  i < j =>
                     /\ jiraRows[i].Parent <= jiraRows[j].Parent
                     /\ jiraRows[i].Parent = jiraRows[j].Parent =>
                           TupleLeq(DateTimeOf(jiraRows[i].src), DateTimeOf(jiraRows[j].src))

\* Two months with children in both: ids 1, 2 for the months, 3..5 below.
C2_Witness ==
    /\ Exported
    /\ Len(monthEntries) = 2
    /\ Len(jiraRows) = 5
    /\ jiraRows[3].Parent = 1
    /\ jiraRows[4].Parent = 2
    /\ jiraRows[5].WorkItemID = 5

\* C3: the Parent of every Sub-task row is the Work item ID of a Task row of
\* the same export, and that Task row is the one of the group whose key is
\* the month key of the record's own date ("ohne-datum" for an undated one).
C3_ParentIsOwnMonthTask ==
    Exported =>
        \A i \in SubTaskIdx :
            LET kl == getMonthKeyAndLabel(jiraRows[i].src.datum)
            IN  \E t \in TaskIdx :
                   /\ jiraRows[t].WorkItemID = jiraRows[i].Parent
                   /\ t <= Len(monthEntries)
                   /\ monthEntries[t].key = kl.key
                   /\ Occurrences(monthEntries[t].matches, jiraRows[i].src) > 0
                   /\ jiraRows[t].Summary =
                         (IF kl.key = OHNE_DATUM THEN <<"Spiele ohne Datum">>
                          ELSE <<"Spiele Monat ">> \o kl.label)

\* A dated and an undated record: the undated one hangs below the second Task.
C3_Witness ==
    /\ Exported
    /\ Len(matches) = 2
    /\ matches[1].datum = <<>>
    /\ Len(monthEntries) = 2
    /\ monthEntries[2].key = OHNE_DATUM
    /\ jiraRows[3].Parent = 1
    /\ jiraRows[4].Parent = 2
    /\ jiraRows[4].src = matches[1]

----------------------------------------------------------------------------
(* Properties of the month key *)

\* A day, month or year token of a valid DD.MM.YYYY date: one or two digits
\* for the day (1..31) and the month (1..12), four digits for the year (the
\* calendar has no year 0).
ValidDay(t) == Len(t) \in {1, 2} /\ AllDigits(t) /\ DecVal(t) \in 1..31

ValidMonth(t) == Len(t) \in {1, 2} /\ AllDigits(t) /\ DecVal(t) \in 1..12

ValidYear(t) == Len(t) = 4 /\ AllDigits(t) /\ DecVal(t) >= 1

\* The month number as two digits.
TwoDigits(n) == <<Digits[(n \div 10) + 1], Digits[(n % 10) + 1]>>

\* C4: for every valid date DD.MM.YYYY, also with a one-digit month token,
\* the key of getMonthKeyAndLabel is the year token, a hyphen and the month
\* as two digits.
C4_KeyIsYearDashMonth ==
    KeyDone =>
        \A d \in DayTokens, m \in MonthTokens, y \in YearTokens :
            (datum = Date(d, m, y) /\ ValidDay(d) /\ ValidMonth(m) /\ ValidYear(y)) =>
                keyOut.key = y \o <<"-">> \o TwoDigits(DecVal(m))

\* 15.3.2025 gives 2025-03.
C4_Witness ==
    /\ KeyDone
    /\ datum = <<"1", "5", ".", "3", ".", "2", "0", "2", "5">>
    /\ keyOut.key = <<"2", "0", "2", "5", "-", "0", "3">>

\* Month tokens that are not a number or denote no month of 1..12.
BadMonthTokens == {<<>>, <<"0">>, <<"0", "0">>, <<"1", "3">>, <<"x", "x">>, <<"1", "x">>}

\* Date strings that are empty, do not split into exactly three tokens, or
\* have such a month token.
MalformedDates ==
    YearTokens
    \cup {m \o <<".">> \o y : m \in MonthTokens, y \in YearTokens}
    \cup {d \o <<".", "1">> : d \in ThreeTokenDates}
    \cup {Date(d, m, y) : d \in DayTokens, m \in BadMonthTokens, y \in YearTokens}

HasMalformedDate == \E i \in 1..Len(matches) : matches[i].datum \in MalformedDates

\* C5: a date that is empty, has not exactly three tokens, or has a month
\* token that is no number of 1..12 gets the key "ohne-datum"; the call of
\* exportToJiraCSV on a list with such records has a result (it returns, with
\* a row for every record), and every such record is a child of the
\* "ohne-datum" Task.
C5_MalformedDateIsUndated ==
    /\ (KeyDone /\ datum \in MalformedDates) => keyOut = OhneDatum
    /\ (mode = "export" /\ pc = "ready" /\ HasMalformedDate) =>
          \E r \in {exportToJiraCSV(matches)} :
              Len(r.jiraRows) = Len(r.monthEntries) + Len(matches)
    /\ Exported =>
          \A i \in SubTaskIdx :
              jiraRows[i].src.datum \in MalformedDates =>
                  /\ OHNE_DATUM \in DOMAIN monthIdByKey
                  /\ jiraRows[i].Parent = monthIdByKey[OHNE_DATUM]
                  /\ jiraRows[jiraRows[i].Parent].Summary = <<"Spiele ohne Datum">>

\* An export of three records, two of them with malformed dates.
C5_Witness ==
    /\ Exported
    /\ Len(matches) = 3
    /\ matches[1].datum = <<>>
    /\ matches[2].datum \notin MalformedDates
    /\ matches[3].datum = <<"0", "1", ".", "1", "3", ".", "2", "0", "2", "5">>
    /\ jiraRows[Len(jiraRows)].Parent = monthIdByKey[OHNE_DATUM]

\* Day tokens that are empty or not a number.
BadDayTokens == {<<>>, <<"x", "x">>}

\* C6: a three-token date whose day token is empty or not a number is a
\* parsing failure and gets the key "ohne-datum", as a non-numeric month
\* token does.
C6_BadDayIsUndated ==
    KeyDone =>
        \A d \in BadDayTokens, m \in MonthTokens, y \in YearTokens :
            datum = Date(d, m, y) => keyOut.key = OHNE_DATUM

----------------------------------------------------------------------------
(* Properties of the group order *)

\* a before b in the order of the keys: character by character, a proper
\* prefix first.
RECURSIVE StrLess(_, _)
StrLess(a, b) ==
    IF b = <<>> THEN FALSE
    ELSE IF a = <<>> THEN TRUE
    ELSE IF Head(a) # Head(b) THEN CharRank(Head(a)) < CharRank(Head(b))
    ELSE StrLess(Tail(a), Tail(b))

\* Key a comes strictly before key b: "ohne-datum" after every month key.
KeyBefore(a, b) ==
    IF a = OHNE_DATUM THEN FALSE
    ELSE IF b = OHNE_DATUM THEN TRUE
    ELSE StrLess(a, b)

\* The keys of a sequence of entries.
Keys(es) == [g \in 1..Len(es) |-> es[g].key]

\* The keys of the groups the export forms for the non-empty list ms, in the
\* order of its Task rows.
GroupOrder(ms) == Keys(sortMonthEntries(groupMatches(ms, <<>>)))

\* ms with the elements at i and i + 1 exchanged.
Swapped(ms, i) ==
    [j \in 1..Len(ms) |-> IF j = i THEN ms[i + 1] ELSE IF j = i + 1 THEN ms[i] ELSE ms[j]]

\* C7: the Task rows stand in strictly ascending order of their group keys,
\* "ohne-datum" last, and the order of the groups is the same for every
\* permutation of the input (for every exchange of two neighbours, which
\* generate the permutations).
C7_GroupOrderAscending ==
    Exported =>
        /\ \A g \in 1..Len(monthEntries) :
              /\ jiraRows[g].IssueType = "Task"
              /\ jiraRows[g].WorkItemID = monthIdByKey[monthEntries[g].key]
        /\ \A g, h \in 1..Len(monthEntries) :
              g < h => KeyBefore(monthEntries[g].key, monthEntries[h].key)
        /\ \A i \in 1..(Len(matches) - 1) :
              GroupOrder(Swapped(matches, i)) = Keys(monthEntries)

\* The undated record comes first in the input and its group last; the two
\* month groups are met in descending order and come out ascending.
C7_Witness ==
    /\ Exported
    /\ Len(matches) = 3
    /\ matches[1].datum = <<>>
    /\ Len(monthEntries) = 3
    /\ getMonthKeyAndLabel(matches[2].datum).key = monthEntries[2].key
    /\ getMonthKeyAndLabel(matches[3].datum).key = monthEntries[1].key
    /\ monthEntries[3].key = OHNE_DATUM

\* (year, month) of a month group, as numbers.
YearMonthOf(entry) ==
    LET p == split(entry.matches[1].datum, ".")
    IN  <<Number(p[3]).val, Number(p[2]).val>>

\* C8: the month groups are emitted in chronological order of (numeric
\* year, numeric month), whatever the number of digits of the year, and the
\* undated group is last.
C8_GroupOrderChronological ==
    Exported =>
        \A g, h \in 1..Len(monthEntries) :
            g < h =>
               /\ monthEntries[g].key # OHNE_DATUM
               /\ (monthEntries[h].key # OHNE_DATUM =>
                      TupleLeq(YearMonthOf(monthEntries[g]), YearMonthOf(monthEntries[h])))

----------------------------------------------------------------------------
(* Properties of the order within a group *)

\* The Sub-task rows below the Task of group g, in row order.
ChildrenOf(g) ==
    LET IsChild(row) == row.IssueType = "Sub-task" /\ row.Parent = jiraRows[g].WorkItemID
        rows == SelectSeq(jiraRows, IsChild)
    IN  [i \in 1..Len(rows) |-> rows[i].src]

\* The month key of each record of ms.
MonthKeys(ms) == [i \in 1..Len(ms) |-> getMonthKeyAndLabel(ms[i].datum).key]

\* The positions of a set I of indices, in ascending order.
Ascending(I) == [n \in 1..Cardinality(I) |-> CHOOSE i \in I : Cardinality({j \in I : j <= i}) = n]

\* The records of ms (with the month keys ks) whose key is k, in order.
WithKey(ms, ks, k) ==
    LET I == {i \in 1..Len(ms) : ks[i] = k}
    IN  [n \in 1..Cardinality(I) |-> ms[Ascending(I)[n]]]

\* (year, month, day, hour, minute) of each record of ms.
DateTimes(ms) == [i \in 1..Len(ms) |-> DateTimeOf(ms[i])]

\* The records of ms whose date and time (ts, one per record) are t, in order.
WithDateTime(ms, ts, t) ==
    LET I == {i \in 1..Len(ms) : ts[i] = t}
    IN  [n \in 1..Cardinality(I) |-> ms[Ascending(I)[n]]]

\* children (with the dates and times ct) is input (with it) in ascending
\* order of date and time, equal records in their input order.
SortedStable(children, ct, input, it) ==
    /\ Len(children) = Len(input)
    /\ \A i \in 1..(Len(children) - 1) : TupleLeq(ct[i], ct[i + 1])
    /\ \A i \in 1..Len(input) :
          WithDateTime(children, ct, it[i]) = WithDateTime(input, it, it[i])

\* C9: within each group the Sub-task rows are in ascending order of
\* (year, month, day, hour, minute) compared as numbers, a missing or
\* unparsable component counting as zero, and records that compare equal
\* keep their input order.
C9_ChildrenSortedStable ==
    Exported =>
        \E ks \in {MonthKeys(matches)} :
            \A g \in 1..Len(monthEntries) :
                \E children \in {ChildrenOf(g)}, input \in {WithKey(matches, ks, monthEntries[g].key)} :
                    \E ct \in {DateTimes(children)}, it \in {DateTimes(input)} :
                        SortedStable(children, ct, input, it)

\* One month, the input in descending order of time, with two records that
\* differ in text and compare equal ("01.03.2025" and "1.3.2025" at 18:30):
\* 9:05 comes first, the equal pair keeps its input order.
C9_Witness ==
    /\ Exported
    /\ Len(monthEntries) = 1
    /\ Len(matches) = 3
    /\ matches[1] # matches[2]
    /\ DateTimeOf(matches[1]) = DateTimeOf(matches[2])
    /\ DateTimeOf(matches[3]) = <<2025, 3, 1, 9, 5>>
    /\ DateTimeOf(matches[1]) = <<2025, 3, 1, 18, 30>>
    /\ ChildrenOf(1) = <<matches[3], matches[1], matches[2]>>

D_15_03_2025 == <<"1", "5", ".", "0", "3", ".", "2", "0", "2", "5">>

D_01_03_2025 == <<"0", "1", ".", "0", "3", ".", "2", "0", "2", "5">>

K_2025_03 == <<"2", "0", "2", "5", "-", "0", "3">>

\* The input of the example: dates 15.03.2025, (none), 01.03.2025.
IsExampleInput ==
    /\ Len(matches) = 3
    /\ matches[1].datum = D_15_03_2025
    /\ matches[2].datum = <<>>
    /\ matches[3].datum = D_01_03_2025

\* C10: for the records dated 15.03.2025, (none), 01.03.2025 in this order
\* there are exactly two groups, "2025-03" and then "ohne-datum"; "2025-03"
\* holds the two dated records, 01.03.2025 before 15.03.2025, and
\* "ohne-datum" holds the undated record.
C10_ExampleGrouping ==
    (Exported /\ IsExampleInput) =>
        /\ Len(monthEntries) = 2
        /\ monthEntries[1].key = K_2025_03
        /\ monthEntries[2].key = OHNE_DATUM
        /\ TaskIdx = {1, 2}
        /\ ChildrenOf(1) = <<matches[3], matches[1]>>
        /\ ChildrenOf(2) = <<matches[2]>>

C10_Witness ==
    /\ Exported
    /\ IsExampleInput
    /\ Len(jiraRows) = 5
    /\ jiraRows[3].src.datum = D_01_03_2025
    /\ jiraRows[4].src.datum = D_15_03_2025
    /\ jiraRows[5].src.datum = <<>>

----------------------------------------------------------------------------
(* Values and strings of main *)

null == <<"null">>

true == <<"true">>

false == <<"false">>

\* The truthiness of a boolean, null, undefined or a string.
Truthy(v) == v \notin {false, null, undefined, <<>>}

\* v ?? d
Coalesce(v, d) == IF v = null \/ v = undefined THEN d ELSE v

formatDate(date) == Coalesce(date, <<>>)

formatTime(time) == Coalesce(time, <<>>)

LowerCase == {"a", "b", "c", "d", "e", "f", "g", "h", "i", "j", "k", "l", "m",
              "n", "o", "p", "q", "r", "s", "t", "u", "v", "w", "x", "y", "z"}

UpperCase == {"A", "B", "C", "D", "E", "F", "G", "H", "I", "J", "K", "L", "M",
              "N", "O", "P", "Q", "R", "S", "T", "U", "V", "W", "X", "Y", "Z"}

\* [a-zA-Z0-9_-]
FilenameChars == LowerCase \cup UpperCase \cup {Digits[i] : i \in 1..Len(Digits)} \cup {"_", "-"}

\* The replacement of one character by the five replace calls in a row.
sanitizeChar(c) ==
    IF c = "ä" THEN <<"a", "e">>
    ELSE IF c = "ö" THEN <<"o", "e">>
    ELSE IF c = "ü" THEN <<"u", "e">>
    ELSE IF c = "ß" THEN <<"s", "s">>
    ELSE IF c \in FilenameChars THEN <<c>>
    ELSE <<"_">>

RECURSIVE sanitizeFilename(_)
sanitizeFilename(name) ==
    IF name = <<>> THEN <<>>
    ELSE sanitizeChar(Head(name)) \o sanitizeFilename(Tail(name))

\* n.toString() of a number of the clock.
RECURSIVE toString(_)
toString(n) == IF n < 10 THEN <<Digits[n + 1]>> ELSE toString(n \div 10) \o <<Digits[(n % 10) + 1]>>

\* const pad = (n) => n.toString().padStart(2, "0")
pad(n) == padStart(toString(n), 2, "0")

\* now is the local time of the clock; month counts from 0 as getMonth does.
getTimestamp(now) ==
    toString(now.year) \o <<"-">> \o pad(now.month + 1) \o <<"-">> \o pad(now.date)
        \o <<"_">> \o pad(now.hours) \o <<"-">> \o pad(now.minutes) \o <<"-">> \o pad(now.seconds)

Spiele == <<"S", "p", "i", "e", "l", "e">>

Jira_Spiele == <<"J", "i", "r", "a", "_", "S", "p", "i", "e", "l", "e">>

Alle_Teams == <<"A", "l", "l", "e", "_", "T", "e", "a", "m", "s">>

dotCsv == <<".", "c", "s", "v">>

dotXlsx == <<".", "x", "l", "s", "x">>

dotIcs == <<".", "i", "c", "s">>

\* `${prefix}_${team}_${timestamp}${extension}`
fileName(prefix, team, ts, extension) ==
    prefix \o <<"_">> \o team \o <<"_">> \o ts \o extension

TEAMS ==
    << [id |-> "016PBQB78C000000VV0AG80NVV8OQVTB", name |-> <<"G", "ä", "d", "h", "e", "i", "m", "-", "U", "n", "t", "e", "r", "e", "u", "e", "r", "h", "e", "i", "m">>],
       [id |-> "02IDHSKCTG000000VS5489B2VU2I8R4H", name |-> <<"G", "ä", "d", "h", "e", "i", "m", "-", "U", "n", "t", "e", "r", "e", "u", "e", "r", "h", "e", "i", "m", " ", "I", "I">>] >>

Ja == <<"J", "a">>

Nein == <<"N", "e", "i", "n">>

\* Variant of mapMatch: the result is copied as it came.
mapMatch_rawResult(data, match) ==
    [mannschaft |-> data.team.name,
     wettbewerb |-> match.competitionName,
     wettbewerbstyp |-> match.competitionType,
     datum |-> formatDate(match.kickoffDate),
     uhrzeit |-> formatTime(match.kickoffTime),
     heim |-> match.homeTeamName,
     gast |-> match.guestTeamName,
     ergebnis |-> match.result,
     vorabVeroeffentlicht |-> IF Truthy(match.prePublished) THEN Ja ELSE Nein]

\* The callback of data.matches.map: one ExportMatch of one raw match.
mapMatch(data, match) ==
    [mannschaft |-> data.team.name,
     wettbewerb |-> match.competitionName,
     wettbewerbstyp |-> match.competitionType,
     datum |-> formatDate(match.kickoffDate),
     uhrzeit |-> formatTime(match.kickoffTime),
     heim |-> match.homeTeamName,
     gast |-> match.guestTeamName,
     ergebnis |-> Coalesce(match.result, <<>>),
     vorabVeroeffentlicht |-> IF Truthy(match.prePublished) THEN Ja ELSE Nein]

\* data.matches.map(...)
mapMatches(data) == [i \in 1..Len(data.matches) |-> mapMatch(data, data.matches[i])]

\* Array.prototype.filter
RECURSIVE filterDated(_)

\* Variant of filterDated: a record with a date is kept whatever its time.
RECURSIVE filterDated_dateOnly(_)
filterDated_dateOnly(ms) ==
    IF ms = <<>> THEN <<>>
    ELSE IF Truthy(Head(ms).datum) THEN <<Head(ms)>> \o filterDated_dateOnly(Tail(ms))
    ELSE filterDated_dateOnly(Tail(ms))

\* matches.filter(m => m.datum && m.uhrzeit)
filterDated(ms) ==
    IF ms = <<>> THEN <<>>
    ELSE IF Truthy(Head(ms).datum) /\ Truthy(Head(ms).uhrzeit) THEN <<Head(ms)>> \o filterDated(Tail(ms))
    ELSE filterDated(Tail(ms))

\* The EventAttributes of one record; src is the record the description is
\* rendered from.
icsEvent(m) ==
    [title |-> m.heim \o <<" ", "v", "s", " ">> \o m.gast,
     start |-> parseDateTime(m.datum, m.uhrzeit),
     duration |-> [hours |-> 2],
     src |-> m]

\* The events exportToICS hands to createEvents.
icsEvents(ms) == [i \in 1..Len(filterDated(ms)) |-> icsEvent(filterDated(ms)[i])]

\* The rows json2csv renders, one per record.
csvRows(ms) == ms

\* The rows worksheet.addRow adds, one per record.
xlsxRows(ms) == ms

----------------------------------------------------------------------------
(* Inputs of main *)

MaxRawMatches == 1

\* A match of the API response; the four fields the mapper converts vary.
RawMatch(kickoffDate, kickoffTime, res, prePublished) ==
    [competitionName |-> <<"L">>,
     competitionType |-> <<"T">>,
     kickoffDate |-> kickoffDate,
     kickoffTime |-> kickoffTime,
     homeTeamName |-> <<"H">>,
     guestTeamName |-> <<"G">>,
     result |-> res,
     prePublished |-> prePublished]

\* A match with date, time and result; one without date; one without time;
\* one with neither.
RawMatches ==
    << RawMatch(<<"0", "1", ".", "0", "3", ".", "2", "0", "2", "5">>, <<"1", "8", ":", "3", "0">>, <<"2", ":", "1">>, true),
      RawMatch(null, <<"1", "8", ":", "3", "0">>, null, false),
      RawMatch(<<"1", "5", ".", "0", "3", ".", "2", "0", "2", "5">>, undefined, undefined, undefined),
      RawMatch(undefined, null, <<>>, null) >>

\* The matches of RawMatches at the positions I, in the order of RawMatches.
RECURSIVE matchesAt(_, _)
matchesAt(I, k) ==
    IF k = 0 THEN <<>>
    ELSE matchesAt(I, k - 1) \o (IF k \in I THEN <<RawMatches[k]>> ELSE <<>>)

\* The responses of listMatches for the team at position i of TEAMS.
Responses(i) ==
    { [team |-> [name |-> TEAMS[i].name], matches |-> matchesAt(I, Len(RawMatches))] :
          I \in {J \in SUBSET (1..Len(RawMatches)) : Cardinality(J) <= MaxRawMatches} }

\* A response without the matches array: data.matches.map throws.
Malformed(i) == [team |-> [name |-> TEAMS[i].name], matches |-> undefined]

\* The local time at the call of getTimestamp.
Clocks ==
    { [year |-> 2025, month |-> 7, date |-> 2, hours |-> 14, minutes |-> 30, seconds |-> 0],
      [year |-> 2025, month |-> 11, date |-> 31, hours |-> 23, minutes |-> 59, seconds |-> 59] }

\* The local time at the start of the run of main.
RunClocks == {now \in Clocks : now.month = 7}

----------------------------------------------------------------------------
(* main *)

\* One operation of the run beginning, ending or failing; team is the
\* position in TEAMS, 0 for the combined exports and the run as a whole.
Ev(op, team, ph, data) == [op |-> op, team |-> team, ph |-> ph, data |-> data]

Begin(op, team) == Ev(op, team, "begin", <<>>)

End(op, team) == Ev(op, team, "end", <<>>)

Fail(op, team) == Ev(op, team, "fail", <<>>)

\* A file written by exporter `by` from the list ms: the rows of a CSV or
\* XLSX file, the events of a calendar file.
File(name, by, ms) ==
    [name |-> name, by |-> by, matches |-> ms,
     rows |-> IF by = "exportToCSV" THEN csvRows(ms)
              ELSE IF by = "exportToXLSX" THEN xlsxRows(ms) ELSE <<>>,
     events |-> IF by = "exportToICS" THEN icsEvents(ms) ELSE <<>>]

\* The team the statement at `at` works for.
Scope == teamIndex

\* The list an export statement hands to its exporter.
Exported_matches == IF teamIndex = 0 THEN allMatches ELSE teamMatches

\* Variant of TeamPart: every team writes under the name of the first.
TeamPart_firstTeam == IF teamIndex = 0 THEN Alle_Teams ELSE sanitizeFilename(TEAMS[1].name)

\* The team part of a file name.
TeamPart == IF teamIndex = 0 THEN Alle_Teams ELSE sanitizeFilename(TEAMS[teamIndex].name)

\* Variant of concat: the combined list is replaced by the team's list.
concat_replace(all, tm) == tm

\* allMatches.concat(teamMatches)

concat(all, tm) == all \o tm

\* Variant of loopNext: the loop ends one team early.
loopNext_skipLast(i) ==
    IF i + 1 < Len(TEAMS) THEN [at |-> "fetch", teamIndex |-> i + 1]
    ELSE [at |-> "csv", teamIndex |-> 0]

\* Where the loop goes after the pass of team i: the next team, or the
\* statement after the loop.
loopNext(i) ==
    IF i < Len(TEAMS) THEN [at |-> "fetch", teamIndex |-> i + 1]
    ELSE [at |-> "csv", teamIndex |-> 0]

\* Variant of await: the promise of exportToXLSX is not awaited.
await_notAwaited(pending, next) == IF pending = "xlsxPending" THEN next ELSE pending

\* Where main stands while it awaits a promise.

await(pending, next) == pending

\* Variant of Throw: the catch block of the pass throws the error on.
Throw_rethrow(h) ==
    /\ at' = "rejected"
    /\ teamIndex' = 0
    /\ history' = h \o <<Fail("main", 0)>>
    /\ UNCHANGED console

\* An exception in a statement of main: inside the loop the catch block of
\* the pass logs it and the loop goes on, outside it main's promise rejects.
Throw(h) ==
    IF teamIndex # 0
    THEN /\ console' = Append(console, [text |-> "Fehler beim Abrufen der Spiele", team |-> teamIndex])
         /\ at' = loopNext(teamIndex).at
         /\ teamIndex' = loopNext(teamIndex).teamIndex
         /\ history' = h
    ELSE /\ at' = "rejected"
         /\ teamIndex' = 0
         /\ history' = h \o <<Fail("main", 0)>>
         /\ UNCHANGED console

\* The statement after the last export of a pass or of the run.
AfterJira ==
    IF teamIndex # 0
    THEN /\ at' = loopNext(teamIndex).at
         /\ teamIndex' = loopNext(teamIndex).teamIndex
    ELSE /\ at' = "index"
         /\ teamIndex' = 0

MainInit ==
    /\ mode = "idle"
    /\ pc = "idle"
    /\ datum = <<>>
    /\ keyOut = <<>>
    /\ matches = <<>>
    /\ monthEntries = <<>>
    /\ monthIdByKey = NoMonthIds
    /\ jiraRows = <<>>
    /\ IndexIdle
    /\ at = "start"
    /\ teamIndex = 0
    /\ timestamp = <<>>
    /\ allMatches = <<>>
    /\ teamMatches = <<>>
    /\ files = <<>>
    /\ console = <<>>
    /\ exitCode = NoExit
    /\ history = <<>>

\* ensureExportDir(); const timestamp = getTimestamp(); let allMatches = []
Start ==
    /\ at = "start"
    /\ \/ /\ \E now \in RunClocks : timestamp' = getTimestamp(now)
          /\ at' = (IF Len(TEAMS) > 0 THEN "fetch" ELSE "csv")
          /\ teamIndex' = (IF Len(TEAMS) > 0 THEN 1 ELSE 0)
          /\ history' = history \o <<Begin("mkdir", 0), End("mkdir", 0)>>
       \/ /\ at' = "rejected"
          /\ history' = history \o <<Begin("mkdir", 0), Fail("mkdir", 0), Fail("main", 0)>>
          /\ UNCHANGED <<timestamp, teamIndex>>
    /\ UNCHANGED <<allMatches, teamMatches, files, console, exitCode>>
    /\ UNCHANGED <<exportVars, indexVars>>

\* bfvApi.listMatches({ params: { teamPermanentId: team.id } }) is called
CallListMatches ==
    /\ at = "fetch"
    /\ at' = await("fetchPending", "map")
    /\ history' = Append(history, Begin("fetch", teamIndex))
    /\ UNCHANGED <<teamIndex, timestamp, allMatches, teamMatches, files, console, exitCode>>
    /\ UNCHANGED <<exportVars, indexVars>>

\* the promise of listMatches settles; on a response the records are mapped
\* and added to the combined list
ListMatchesSettles ==
    /\ at = "fetchPending"
    /\ \/ /\ Throw(Append(history, Fail("fetch", teamIndex)))
          /\ UNCHANGED <<allMatches, teamMatches>>
       \/ /\ Throw(history \o <<Ev("fetch", teamIndex, "end", Malformed(teamIndex)),
                                Begin("map", teamIndex), Fail("map", teamIndex)>>)
          /\ UNCHANGED <<allMatches, teamMatches>>
       \/ \E data \in Responses(teamIndex) :
             /\ teamMatches' = mapMatches(data)
             /\ allMatches' = concat(allMatches, mapMatches(data))
             /\ at' = "csv"
             /\ history' = history \o <<Ev("fetch", teamIndex, "end", data),
                                        Begin("map", teamIndex), End("map", teamIndex)>>
             /\ UNCHANGED <<teamIndex, console>>
    /\ UNCHANGED <<timestamp, files, exitCode>>
    /\ UNCHANGED <<exportVars, indexVars>>

\* exportToCSV(teamMatches, csvName), exportToCSV(allMatches, csvNameAll):
\* the file is written, or parser.parse or writeFileSync throws
ExportCSV ==
    /\ at = "csv"
    /\ \/ /\ ~parse(Exported_matches, NoFields).threw
          /\ files' = Append(files, File(fileName(Spiele, TeamPart, timestamp, dotCsv),
                                         "exportToCSV", Exported_matches))
          /\ at' = "xlsx"
          /\ history' = history \o <<Begin("csv", Scope), End("csv", Scope)>>
          /\ UNCHANGED <<teamIndex, console>>
       \/ /\ Throw(history \o <<Begin("csv", Scope), Fail("csv", Scope)>>)
          /\ UNCHANGED files
    /\ UNCHANGED <<timestamp, allMatches, teamMatches, exitCode>>
    /\ UNCHANGED <<exportVars, indexVars>>

\* exportToXLSX(teamMatches, xlsxName), exportToXLSX(allMatches, xlsxNameAll)
\* is called
CallExportToXLSX ==
    /\ at = "xlsx"
    /\ at' = await("xlsxPending", "ics")
    /\ history' = Append(history, Begin("xlsx", Scope))
    /\ UNCHANGED <<teamIndex, timestamp, allMatches, teamMatches, files, console, exitCode>>
    /\ UNCHANGED <<exportVars, indexVars>>

\* the promise of exportToXLSX settles
ExportToXLSXSettles ==
    /\ at = "xlsxPending"
    /\ \/ /\ files' = Append(files, File(fileName(Spiele, TeamPart, timestamp, dotXlsx),
                                         "exportToXLSX", Exported_matches))
          /\ at' = "ics"
          /\ history' = Append(history, End("xlsx", Scope))
          /\ UNCHANGED <<teamIndex, console>>
       \/ /\ Throw(Append(history, Fail("xlsx", Scope)))
          /\ UNCHANGED files
    /\ UNCHANGED <<timestamp, allMatches, teamMatches, exitCode>>
    /\ UNCHANGED <<exportVars, indexVars>>

\* Variant of OnIcsError: the callback throws the error it was handed.
OnIcsError_throw(h) ==
    /\ Throw(Append(h, Fail("ics", Scope)))
    /\ UNCHANGED files

\* if (error) { console.error("ICS export error:", error); return; }
OnIcsError(h) ==
    /\ console' = Append(console, [text |-> "ICS export error", team |-> teamIndex])
    /\ at' = "jira"
    /\ history' = h
    /\ UNCHANGED <<teamIndex, files>>

\* exportToICS(teamMatches, icsName), exportToICS(allMatches, icsNameAll):
\* createEvents calls back with the calendar or with an error
ExportICS ==
    /\ at = "ics"
    /\ \/ /\ files' = Append(files, File(fileName(Spiele, TeamPart, timestamp, dotIcs),
                                         "exportToICS", Exported_matches))
          /\ at' = "jira"
          /\ history' = history \o <<Begin("ics", Scope), End("ics", Scope)>>
          /\ UNCHANGED <<teamIndex, console>>
       \/ OnIcsError(history \o <<Begin("ics", Scope), Ev("ics", Scope, "error", <<>>)>>)
       \/ /\ Throw(history \o <<Begin("ics", Scope), Fail("ics", Scope)>>)
          /\ UNCHANGED files
    /\ UNCHANGED <<timestamp, allMatches, teamMatches, exitCode>>
    /\ UNCHANGED <<exportVars, indexVars>>

\* exportToJiraCSV(teamMatches, jiraCsvName),
\* exportToJiraCSV(allMatches, jiraCsvNameAll); the rows of the file are
\* those of CallExportToJiraCSV for the same list
ExportJiraCSV ==
    /\ at = "jira"
    /\ \/ /\ files' = Append(files, File(fileName(Jira_Spiele, TeamPart, timestamp, dotCsv),
                                         "exportToJiraCSV", Exported_matches))
          /\ AfterJira
          /\ history' = history \o <<Begin("jira", Scope), End("jira", Scope)>>
          /\ UNCHANGED console
       \/ /\ Throw(history \o <<Begin("jira", Scope), Fail("jira", Scope)>>)
          /\ UNCHANGED files
    /\ UNCHANGED <<timestamp, allMatches, teamMatches, exitCode>>
    /\ UNCHANGED <<exportVars, indexVars>>

indexHtml == <<"i", "n", "d", "e", "x", ".", "h", "t", "m", "l">>

\* generateFancyIndexHtml(EXPORT_DIR); main returns
GenerateIndex ==
    /\ at = "index"
    /\ \/ /\ files' = Append(files, File(indexHtml, "generateFancyIndexHtml", <<>>))
          /\ at' = "fulfilled"
          /\ history' = history \o <<Begin("index", 0), End("index", 0), End("main", 0)>>
          /\ UNCHANGED <<teamIndex, console>>
       \/ /\ Throw(history \o <<Begin("index", 0), Fail("index", 0)>>)
          /\ UNCHANGED files
    /\ UNCHANGED <<timestamp, allMatches, teamMatches, exitCode>>
    /\ UNCHANGED <<exportVars, indexVars>>


\* Variant of CatchHandler: the error is logged and the process ends as
\* after a normal return.
CatchHandler_logOnly ==
    /\ at = "rejected"
    /\ console' = Append(console, [text |-> "Fataler Fehler", team |-> 0])
    /\ exitCode' = 0
    /\ at' = "exited"
    /\ UNCHANGED <<teamIndex, timestamp, allMatches, teamMatches, files, history>>
    /\ UNCHANGED <<exportVars, indexVars>>

\* main().catch((err) => { console.error("Fataler Fehler:", err); process.exit(1) })
CatchHandler ==
    /\ at = "rejected"
    /\ console' = Append(console, [text |-> "Fataler Fehler", team |-> 0])
    /\ exitCode' = 1
    /\ at' = "exited"
    /\ UNCHANGED <<teamIndex, timestamp, allMatches, teamMatches, files, history>>
    /\ UNCHANGED <<exportVars, indexVars>>

\* main's promise is fulfilled and nothing is left to run: the process ends
ProcessEnds ==
    /\ at = "fulfilled"
    /\ exitCode' = 0
    /\ at' = "exited"
    /\ UNCHANGED <<teamIndex, timestamp, allMatches, teamMatches, files, console, history>>
    /\ UNCHANGED <<exportVars, indexVars>>

MainNext ==
    \/ Start
    \/ CallListMatches
    \/ ListMatchesSettles
    \/ ExportCSV
    \/ CallExportToXLSX
    \/ ExportToXLSXSettles
    \/ ExportICS
    \/ ExportJiraCSV
    \/ GenerateIndex
    \/ CatchHandler
    \/ ProcessEnds

MainSpec == MainInit /\ [][MainNext]_vars

\* Every promise main awaits settles, and every step that can run does.
FairMainSpec == MainSpec /\ WF_vars(MainNext)

----------------------------------------------------------------------------
(* Properties of the calendar export *)

\* The positions of the records of ms whose date and time are both non-empty.
Dated(ms) == {i \in 1..Len(ms) : ms[i].datum # <<>> /\ ms[i].uhrzeit # <<>>}

\* The positions of the files written by one of the exporters bys from ms.
FilesOf(bys, ms) == {j \in 1..Len(files) : files[j].by \in bys /\ files[j].matches = ms}

\* C11: the events of a calendar file are, in input order, the records of
\* the list whose date and time are both non-empty, one event each; a record
\* with an empty date or an empty time has no event and the file is written
\* all the same, and the CSV and the XLSX file of the same list have a row
\* for every record of the list.
C11_OneEventPerDatedRecord ==
    \A k \in 1..Len(files) :
        files[k].by = "exportToICS" =>
            \E L \in {files[k].matches} :
                \E D \in {Dated(L)} :
                    /\ Len(files[k].events) = Cardinality(D)
                    /\ \A n \in 1..Cardinality(D) :
                          /\ files[k].events[n].src = L[Ascending(D)[n]]
                          /\ files[k].events[n].start = DateTimeOf(L[Ascending(D)[n]])
                    /\ FilesOf({"exportToCSV"}, L) # {}
                    /\ FilesOf({"exportToXLSX"}, L) # {}
                    /\ \A j \in FilesOf({"exportToCSV", "exportToXLSX"}, L) : files[j].rows = L

\* A calendar file of a list of two records, one of them without an event.
C11_Witness ==
    \E k \in 1..Len(files) :
        /\ files[k].by = "exportToICS"
        /\ Len(files[k].matches) = 2
        /\ Len(files[k].events) = 1
        /\ files[k].events[1].src = files[k].matches[2]
        /\ files[k].matches[1].datum # <<>>
        /\ files[k].matches[1].uhrzeit = <<>>

----------------------------------------------------------------------------
(* Properties of the run of main *)

Exited == at = "exited"

Hist == 1..Len(history)

\* The names of the four export files of a team part.
ExportNames(part) ==
    { fileName(Spiele, part, timestamp, dotCsv), fileName(Spiele, part, timestamp, dotXlsx),
      fileName(Spiele, part, timestamp, dotIcs), fileName(Jira_Spiele, part, timestamp, dotCsv) }

Written == {files[k].name : k \in 1..Len(files)}

\* The teams whose fetch failed, and those whose fetch gave a response.
FetchFailed == {t \in 1..Len(TEAMS) : \E k \in Hist : history[k] = Fail("fetch", t)}

FetchDone == {t \in 1..Len(TEAMS) : \E k \in Hist : history[k].op = "fetch" /\ history[k].team = t /\ history[k].ph = "end"}

\* Nothing but fetches failed in the run.
OnlyFetchFailures == \A k \in Hist : history[k].ph \in {"fail", "error"} => history[k].op = "fetch"

TeamErrors == {k \in 1..Len(console) : console[k].team # 0 /\ console[k].text = "Fehler beim Abrufen der Spiele"}

WriteOps == {"mkdir", "csv", "xlsx", "ics", "jira", "index"}

\* C13: a run in which the creation of the export directory or the write of
\* an export file (of a team or combined) failed ends in the top-level
\* handler: the fatal error is logged and the exit status is 1.
C13_WriteFailureIsFatal ==
    (Exited /\ \E k \in Hist : history[k].ph = "fail" /\ history[k].op \in WriteOps) =>
        /\ exitCode = 1
        /\ \E c \in 1..Len(console) : console[c].text = "Fataler Fehler"

MainRejected == \E k \in Hist : history[k] = Fail("main", 0)

MainReturned == \E k \in Hist : history[k] = End("main", 0)

\* C14: every run ends, with exit status 0 if main ran to completion and
\* with exit status 1 if and only if an error escaped main to the top-level
\* catch handler.
C14_TerminatesWithStatus ==
    /\ <>Exited
    /\ [](Exited => /\ exitCode \in {0, 1}
                    /\ (exitCode = 0 <=> MainReturned)
                    /\ (exitCode = 1 <=> MainRejected)
                    /\ ~(MainReturned /\ MainRejected))
    /\ [](~Exited => exitCode = NoExit)

\* A run that ended in the handler after the combined CSV could not be written.
C14_Witness ==
    /\ Exited
    /\ exitCode = 1
    /\ MainRejected
    /\ \E k \in Hist : history[k] = Fail("csv", 0)

\* The stage of the run an operation belongs to: the start, the teams in
\* configured order, the combined exports, the index page.
Stage(e) ==
    IF e.op = "mkdir" THEN 0
    ELSE IF e.op = "index" THEN Len(TEAMS) + 2
    ELSE IF e.team = 0 THEN Len(TEAMS) + 1
    ELSE e.team

\* The event at k is of an operation of the run, not of main's promise.
IsOp(k) == history[k].op # "main"

\* C15: no operation begins while another is in flight: every operation
\* ends or fails right after it began, before the next begins; the stages
\* of the run follow each other (the teams in configured order, then the
\* combined exports, then the index page) and the fetch of a team is the
\* first operation of its stage.
C15_StrictlySequential ==
    /\ \A k \in Hist : \E e \in {history[k]} :
          IsOp(k) =>
              /\ IF e.ph = "begin"
                 THEN k > 1 => (IsOp(k - 1) /\ history[k - 1].ph # "begin")
                 ELSE k > 1 /\ history[k - 1] = Begin(e.op, e.team)
              /\ k > 1 =>
                    /\ Stage(history[k - 1]) <= Stage(e)
                    /\ e = Begin("fetch", e.team) => Stage(history[k - 1]) < e.team
    /\ (at = "xlsxPending" <=> (history # <<>> /\ history[Len(history)] = Begin("xlsx", teamIndex)))
    /\ (at = "fetchPending" <=> (history # <<>> /\ history[Len(history)] = Begin("fetch", teamIndex)))

\* A complete run: both teams and the combined exports wrote their
\* spreadsheets, and the index page came last.
C15_Witness ==
    /\ Exited
    /\ exitCode = 0
    /\ \A t \in 0..Len(TEAMS) : \E k \in Hist : history[k] = End("xlsx", t)
    /\ history[Len(history) - 1] = End("index", 0)

\* The mapped records of team t if its fetch and its mapping succeeded.
MappedOf(t) ==
    LET K == {k \in Hist : /\ history[k].op = "fetch" /\ history[k].team = t /\ history[k].ph = "end"
                           /\ history[k + 2] = End("map", t)}
    IN  IF K = {} THEN <<>> ELSE mapMatches(history[CHOOSE k \in K : TRUE].data)

RECURSIVE MappedUpTo(_)
MappedUpTo(t) == IF t = 0 THEN <<>> ELSE MappedUpTo(t - 1) \o MappedOf(t)

\* C16: every combined file holds the mapped records of the teams whose
\* fetch and mapping succeeded, team after team in configured order, and
\* nothing else, whether or not the files of those teams could be written.
C16_CombinedIsConcatenation ==
    \E names \in {ExportNames(Alle_Teams)} :
        (\E k \in 1..Len(files) : files[k].name \in names) =>
            \E expected \in {MappedUpTo(Len(TEAMS))} :
                \A k \in 1..Len(files) :
                    files[k].name \in names =>
                        /\ files[k].matches = expected
                        /\ files[k].by \in {"exportToCSV", "exportToXLSX"} => files[k].rows = expected

\* The CSV of the first team could not be written, the fetch of both teams
\* gave a record, and the combined CSV has both.
C16_Witness ==
    /\ \E k \in Hist : history[k] = Fail("csv", 1)
    /\ \E k \in 1..Len(files) :
          /\ files[k].name = fileName(Spiele, Alle_Teams, timestamp, dotCsv)
          /\ Len(files[k].rows) = 2
          /\ files[k].rows[1].mannschaft = TEAMS[1].name
          /\ files[k].rows[2].mannschaft = TEAMS[2].name

\* C20: the mapper turns a result, a kickoff date or a kickoff time that is
\* null or undefined into the empty string and copies a string as it is, so
\* that no field is null or undefined; the pre-published flag becomes "Ja"
\* if it is truthy and "Nein" otherwise.
C20_MapperDefaults ==
    (at = "csv" /\ teamIndex # 0) =>
        \E raws \in {history[Len(history) - 2].data.matches} :
            /\ Len(teamMatches) = Len(raws)
            /\ \A i \in 1..Len(raws) :
                  /\ teamMatches[i].ergebnis = (IF raws[i].result \in {null, undefined} THEN <<>> ELSE raws[i].result)
                  /\ teamMatches[i].datum = (IF raws[i].kickoffDate \in {null, undefined} THEN <<>> ELSE raws[i].kickoffDate)
                  /\ teamMatches[i].uhrzeit = (IF raws[i].kickoffTime \in {null, undefined} THEN <<>> ELSE raws[i].kickoffTime)
                  /\ {teamMatches[i].ergebnis, teamMatches[i].datum, teamMatches[i].uhrzeit} \cap {null, undefined} = {}
                  /\ teamMatches[i].vorabVeroeffentlicht \in {Ja, Nein}
                  /\ teamMatches[i].vorabVeroeffentlicht = Ja <=> raws[i].prePublished \notin {false, null, undefined, <<>>}

\* A raw match without result and without kickoff time was mapped.
C20_Witness ==
    /\ at = "csv"
    /\ teamIndex # 0
    /\ Len(teamMatches) = 1
    /\ history[Len(history) - 2].data.matches[1].result = undefined
    /\ history[Len(history) - 2].data.matches[1].kickoffTime = undefined
    /\ teamMatches[1].ergebnis = <<>>
    /\ teamMatches[1].uhrzeit = <<>>
    /\ teamMatches[1].vorabVeroeffentlicht = Nein

----------------------------------------------------------------------------
(* getFilesByTypeAndTeam and generateFancyIndexHtml *)

\* String.prototype.endsWith and startsWith
endsWith(f, suffix) ==
    Len(f) >= Len(suffix) /\ SubSeq(f, Len(f) - Len(suffix) + 1, Len(f)) = suffix

startsWith(f, prefix) ==
    Len(f) >= Len(prefix) /\ SubSeq(f, 1, Len(prefix)) = prefix

Unbekannt == <<"U", "n", "b", "e", "k", "a", "n", "n", "t">>

Jira_ == <<"J", "i", "r", "a", "_">>

\* _\d{4}-\d{2}-\d{2}_\d{2}-\d{2}-\d{2}\. ; "\\d" stands for a digit.
TimestampPattern ==
    <<"_", "\\d", "\\d", "\\d", "\\d", "-", "\\d", "\\d", "-", "\\d", "\\d",
      "_", "\\d", "\\d", "-", "\\d", "\\d", "-", "\\d", "\\d", ".">>

\* The pattern matches the text at position i.
patternAt(f, i, pattern) ==
    /\ i + Len(pattern) - 1 <= Len(f)
    /\ \A j \in 1..Len(pattern) :
          IF pattern[j] = "\\d" THEN IsDigit(f[i + j - 1]) ELSE f[i + j - 1] = pattern[j]

\* The group (.+) of the regular expression for the text from position
\* `from`: the longest part that is followed by the timestamp pattern.
teamGroup(f, from) ==
    LET K == {k \in from..Len(f) : patternAt(f, k + 1, TimestampPattern)}
    IN  IF K = {} THEN null
        ELSE SubSeq(f, from, CHOOSE k \in K : \A other \in K : k >= other)

\* match[3] of file.name.match(/^((Jira_)?Spiele)_(.+)_\d{4}-...\./), null
\* if the name does not match.
matchTeam(f) ==
    IF startsWith(f, Jira_Spiele \o <<"_">>) THEN teamGroup(f, Len(Jira_Spiele) + 2)
    ELSE IF startsWith(f, Spiele \o <<"_">>) THEN teamGroup(f, Len(Spiele) + 2)
    ELSE null

\* const team = match && match[3] ? match[3] : "Unbekannt"
teamOf(f) == IF matchTeam(f) = null THEN Unbekannt ELSE matchTeam(f)

\* Properties every object inherits from Object.prototype.
ObjectPrototype ==
    { <<"c", "o", "n", "s", "t", "r", "u", "c", "t", "o", "r">>, <<"_", "_", "p", "r", "o", "t", "o", "_", "_">>, <<"t", "o", "S", "t", "r", "i", "n", "g">>, <<"v", "a", "l", "u", "e", "O", "f">>, <<"h", "a", "s", "O", "w", "n", "P", "r", "o", "p", "e", "r", "t", "y">> }

\* byTeam is the sequence of its own properties [team, files] in the order
\* they were created.
hasOwn(byTeam, team) == \E i \in 1..Len(byTeam) : byTeam[i].team = team

\* if (!byTeam[team]) byTeam[team] = []; byTeam[team].push(file), for a
\* team that byTeam[team] does not find on the prototype.
put(byTeam, team, file) ==
    IF hasOwn(byTeam, team)
    THEN [i \in 1..Len(byTeam) |->
              IF byTeam[i].team = team THEN [byTeam[i] EXCEPT !.files = Append(@, file)] ELSE byTeam[i]]
    ELSE Append(byTeam, [team |-> team, files |-> <<file>>])

TypeError == [threw |-> TRUE, byTeam |-> <<>>]

\* The loop over the files: byTeam[team] of a team that is no own property
\* but a property of Object.prototype is truthy and has no push, which
\* throws a TypeError.
RECURSIVE groupFiles(_, _)
groupFiles(fs, byTeam) ==
    IF fs = <<>> THEN [threw |-> FALSE, byTeam |-> byTeam]
    ELSE \* the team of the first file
         LET team == teamOf(Head(fs).name)
         IN  IF ~hasOwn(byTeam, team) /\ team \in ObjectPrototype THEN TypeError
             ELSE groupFiles(Tail(fs), put(byTeam, team, Head(fs)))

\* byTeam[team].sort((a, b) => b.mtime - a.mtime): insertion of x into a
\* list sorted by descending mtime, after the files that are not older.
RECURSIVE insertByMtime(_, _)
insertByMtime(sorted, x) ==
    IF sorted = <<>> THEN <<x>>
    ELSE IF x.mtime - Head(sorted).mtime > 0 THEN <<x>> \o sorted
    ELSE <<Head(sorted)>> \o insertByMtime(Tail(sorted), x)

RECURSIVE sortByMtime(_, _)
sortByMtime(fs, sorted) ==
    IF fs = <<>> THEN sorted ELSE sortByMtime(Tail(fs), insertByMtime(sorted, Head(fs)))

\* readdirSync(dir).filter((f) => f.endsWith(ext)) with the stats
withExtension(d, e) == SelectSeq(d, LAMBDA f : endsWith(f.name, e))

getFilesByTypeAndTeam(d, e) ==
    LET grouped == groupFiles(withExtension(d, e), <<>>)
    IN  IF grouped.threw THEN TypeError
        ELSE [threw |-> FALSE,
              byTeam |-> [i \in 1..Len(grouped.byTeam) |->
                             [grouped.byTeam[i] EXCEPT !.files = sortByMtime(@, <<>>)]]]

\* jiraCsvByTeam[team] = jiraCsvByTeam[team].filter(f => f.name.startsWith("Jira_"))
onlyJira(byTeam) ==
    [i \in 1..Len(byTeam) |->
        [byTeam[i] EXCEPT !.files = SelectSeq(@, LAMBDA f : startsWith(f.name, Jira_))]]

\* The four sections of the page, each the object it is rendered from.
generateFancyIndexHtml(d) ==
    LET all == getFilesByTypeAndTeam(d, dotCsv)
        xlsx == getFilesByTypeAndTeam(d, dotXlsx)
        ics == getFilesByTypeAndTeam(d, dotIcs)
    IN  IF all.threw \/ xlsx.threw \/ ics.threw THEN [threw |-> TRUE, sections |-> <<>>]
        ELSE [threw |-> FALSE,
              sections |-> [csv |-> all.byTeam, xlsx |-> xlsx.byTeam, ics |-> ics.byTeam,
                            jira |-> onlyJira(all.byTeam)]]

----------------------------------------------------------------------------
(* Inputs of the index generator *)

TS1 == <<"2", "0", "2", "5", "-", "0", "8", "-", "0", "2", "_", "1", "4", "-", "3", "0", "-", "0", "0">>

TS2 == <<"2", "0", "2", "5", "-", "0", "8", "-", "0", "3", "_", "0", "2", "-", "0", "0", "-", "0", "0">>

Stat(name, mtime, size) == [name |-> name, mtime |-> mtime, size |-> size]

\* The files a directory may hold, in the order readdirSync lists them.
Candidates ==
    << Stat(fileName(Jira_Spiele, <<"A">>, TS1, dotCsv), 5, 100),
       Stat(fileName(Spiele, <<"A">>, TS1, dotCsv), 5, 100),
       Stat(fileName(Spiele, <<"A">>, TS2, dotCsv), 9, 100),
       Stat(fileName(Spiele, <<"A">>, TS1, dotXlsx), 5, 2000),
       Stat(fileName(Spiele, <<"A">>, TS1, dotIcs), 5, 100),
       Stat(fileName(Spiele, <<"A", "_", "B">>, TS1, dotCsv), 7, 100),
       Stat(fileName(Spiele, <<"A">>, <<"2", "0", "2", "5", "-", "8", "-", "0", "2", "_", "1", "4", "-", "3", "0", "-", "0", "0">>, dotCsv), 5, 100),
       Stat(fileName(Spiele, <<"c", "o", "n", "s", "t", "r", "u", "c", "t", "o", "r">>, TS1, dotCsv), 5, 100),
       Stat(<<"n", "o", "t", "e", "s", ".", "c", "s", "v">>, 1, 10),
       Stat(indexHtml, 9, 3000) >>

\* The files of Candidates at the positions I, in the order of the listing.
RECURSIVE listing(_, _)
listing(I, k) ==
    IF k = 0 THEN <<>>
    ELSE listing(I, k - 1) \o (IF k \in I THEN <<Candidates[k]>> ELSE <<>>)

Directories == {listing(I, Len(Candidates)) : I \in SUBSET (1..Len(Candidates))}

Extensions == {dotCsv, dotXlsx, dotIcs}

\* Team names a configuration (TEAMS) can hold.
TeamNames ==
    { TEAMS[1].name, TEAMS[2].name, <<"S", "ü", "d", " ", "1">>, <<"A", "_", "B">>, <<"A", "l", "l", "e", " ", "T", "e", "a", "m", "s">>, <<>>, <<"c", "o", "n", "s", "t", "r", "u", "c", "t", "o", "r">> }

\* The directory after a run of main for one team with name `name` at the
\* time `now`: the four files of the team and the four combined files.
builtDirectory(name, now) ==
    << Stat(fileName(Spiele, sanitizeFilename(name), getTimestamp(now), dotCsv), 1, 100),
       Stat(fileName(Spiele, sanitizeFilename(name), getTimestamp(now), dotXlsx), 2, 2000),
       Stat(fileName(Spiele, sanitizeFilename(name), getTimestamp(now), dotIcs), 3, 100),
       Stat(fileName(Jira_Spiele, sanitizeFilename(name), getTimestamp(now), dotCsv), 4, 100),
       Stat(fileName(Spiele, Alle_Teams, getTimestamp(now), dotCsv), 5, 100),
       Stat(fileName(Spiele, Alle_Teams, getTimestamp(now), dotXlsx), 6, 2000),
       Stat(fileName(Spiele, Alle_Teams, getTimestamp(now), dotIcs), 7, 100),
       Stat(fileName(Jira_Spiele, Alle_Teams, getTimestamp(now), dotCsv), 8, 100) >>

ExportIdle ==
    /\ mode = "idle"
    /\ pc = "idle"
    /\ datum = <<>>
    /\ keyOut = <<>>
    /\ matches = <<>>
    /\ monthEntries = <<>>
    /\ monthIdByKey = NoMonthIds
    /\ jiraRows = <<>>

IndexInit ==
    /\ ExportIdle
    /\ MainIdle
    /\ ipc = "ready"
    /\ byTeamOut = <<>>
    /\ sections = <<>>
    /\ \/ imode = "byTeam" /\ dir \in Directories /\ ext \in Extensions /\ built = <<>>
       \/ imode = "page" /\ dir \in Directories /\ ext = <<>> /\ built = <<>>
       \/ /\ imode = "built"
          /\ ext = <<>>
          /\ \E name \in TeamNames, now \in Clocks :
                /\ built = [name |-> name, timestamp |-> getTimestamp(now)]
                /\ dir = builtDirectory(name, now)

\* getFilesByTypeAndTeam(dir, ext)
CallGetFilesByTypeAndTeam ==
    /\ imode = "byTeam"
    /\ ipc = "ready"
    /\ \E r \in {getFilesByTypeAndTeam(dir, ext)} :
          /\ ipc' = (IF r.threw THEN "threw" ELSE "done")
          /\ byTeamOut' = r.byTeam
    /\ UNCHANGED <<imode, dir, ext, sections, built>>
    /\ UNCHANGED <<exportVars, mainVars>>

\* generateFancyIndexHtml(dir)
CallGenerateFancyIndexHtml ==
    /\ imode \in {"page", "built"}
    /\ ipc = "ready"
    /\ \E r \in {generateFancyIndexHtml(dir)} :
          /\ ipc' = (IF r.threw THEN "threw" ELSE "done")
          /\ sections' = r.sections
    /\ UNCHANGED <<imode, dir, ext, byTeamOut, built>>
    /\ UNCHANGED <<exportVars, mainVars>>

IndexNext == CallGetFilesByTypeAndTeam \/ CallGenerateFancyIndexHtml

IndexSpec == IndexInit /\ [][IndexNext]_vars

----------------------------------------------------------------------------
(* Properties of the index page *)

\* <YYYY-MM-DD_HH-MM-SS>
IsTimestamp(t) ==
    /\ Len(t) = 19
    /\ \A i \in 1..19 :
          IF i \in {5, 8} THEN t[i] = "-"
          ELSE IF i = 11 THEN t[i] = "_"
          ELSE IF i \in {14, 17} THEN t[i] = "-"
          ELSE IsDigit(t[i])

\* The team of a name of the form <prefix>_<team>_<timestamp><e> with a
\* non-empty team, null for any other name.
TeamBetween(n, prefix, e) ==
    LET first == Len(prefix) + 2
        last == Len(n) - Len(e) - 20
    IN  IF /\ startsWith(n, prefix \o <<"_">>)
           /\ endsWith(n, e)
           /\ first <= last
           /\ n[last + 1] = "_"
           /\ IsTimestamp(SubSeq(n, last + 2, last + 20))
        THEN SubSeq(n, first, last)
        ELSE null

\* The team of a file name by the naming convention
\* (Jira_)?Spiele_<team>_<YYYY-MM-DD_HH-MM-SS>.<ext>.
ConventionTeam(n, e) ==
    IF TeamBetween(n, Jira_Spiele, e) # null THEN TeamBetween(n, Jira_Spiele, e)
    ELSE TeamBetween(n, Spiele, e)

\* The teams of the object byTeam whose bucket lists the file name n, one
\* entry for each time it is listed.
ListedAt(byTeam, n) ==
    {p \in UNION {{<<i, j>> : j \in 1..Len(byTeam[i].files)} : i \in 1..Len(byTeam)} :
        byTeam[p[1]].files[p[2]].name = n}

Listed(byTeam, n) == Cardinality(ListedAt(byTeam, n))

BucketsOf(byTeam, n) == {byTeam[p[1]].team : p \in ListedAt(byTeam, n)}

\* C17: on the generated page every file with extension .csv, .xlsx or .ics
\* whose name follows the naming convention is listed exactly once: a plain
\* CSV file in the CSV section, a "Jira_" CSV file in the Jira-Import
\* section, and no file in two sections or twice in one.
C17_EachFileListedOnce ==
    (imode = "page" /\ ipc = "done") =>
        \A k \in 1..Len(dir) : \A e \in Extensions :
            \E n \in {dir[k].name} :
                ConventionTeam(n, e) # null =>
                    /\ Listed(sections.csv, n) + Listed(sections.xlsx, n)
                           + Listed(sections.ics, n) + Listed(sections.jira, n) = 1
                    /\ (e = dotCsv /\ ~startsWith(n, Jira_)) => Listed(sections.csv, n) = 1
                    /\ (e = dotCsv /\ startsWith(n, Jira_)) => Listed(sections.jira, n) = 1

\* C18: getFilesByTypeAndTeam returns an object in which every file of the
\* directory with the requested extension is listed exactly once, in the
\* bucket of the team of its name if the name follows the naming convention
\* and in the bucket "Unbekannt" otherwise, and no other file is listed.
C18_EveryFileInOneBucket ==
    (imode = "byTeam" /\ ipc # "ready") =>
        /\ ipc = "done"
        /\ \A k \in 1..Len(dir) :
              \E n \in {dir[k].name} :
                  IF endsWith(n, ext)
                  THEN /\ Listed(byTeamOut, n) = 1
                       /\ BucketsOf(byTeamOut, n)
                              = {IF ConventionTeam(n, ext) # null THEN ConventionTeam(n, ext) ELSE Unbekannt}
                  ELSE Listed(byTeamOut, n) = 0

\* The section of the page for the files with the extension of n.
SectionOf(n) ==
    IF endsWith(n, dotXlsx) THEN sections.xlsx
    ELSE IF endsWith(n, dotIcs) THEN sections.ics
    ELSE sections.csv

\* C19: the index page of a directory that holds the files main builds for
\* a team name and a timestamp lists each file of the team in the bucket
\* sanitizeFilename(name) and each combined file in the bucket "Alle_Teams";
\* none of them is in "Unbekannt".
C19_BuiltNamesRoundTrip ==
    (imode = "built" /\ ipc # "ready") =>
        /\ ipc = "done"
        /\ \A k \in 1..Len(dir) :
              BucketsOf(SectionOf(dir[k].name), dir[k].name)
                  = {IF k <= 4 THEN sanitizeFilename(built.name) ELSE Alle_Teams}
        /\ \A k \in 1..Len(dir) :
              sanitizeFilename(built.name) # Unbekannt
                  => Unbekannt \notin BucketsOf(SectionOf(dir[k].name), dir[k].name)

----------------------------------------------------------------------------
(* Properties of the CSV files *)

\* The call of exportToCSV has returned.
CsvDone == mode = "csv" /\ pc = "done"

\* The header row of the file of exporter by.
HeaderOf(by) == [header |-> IF by = "exportToJiraCSV" THEN JiraFields ELSE ExportMatchKeys]

\* The objects exporter by has handed to the parser.
ParsedBy(by) == IF by = "exportToJiraCSV" THEN jiraRows ELSE matches

\* C21: every CSV file written by exportToCSV and by exportToJiraCSV is
\* written as UTF-8 and starts with the byte-order mark U+FEFF, followed by
\* the CSV text: the header row and one row for each object handed to the
\* parser. For an empty match list the file of exportToJiraCSV is the mark
\* and the header row.
C21_CsvStartsWithBom ==
    \A k \in 1..Len(files) :
        \E f \in {files[k]} :
            f.by \in {"exportToCSV", "exportToJiraCSV"} =>
                /\ f.encoding = "utf8"
                /\ Len(f.content) = Len(ParsedBy(f.by)) + 2
                /\ f.content[1] = BOM
                /\ f.content[2] = HeaderOf(f.by)
                /\ \A i \in 1..Len(ParsedBy(f.by)) : f.content[i + 2] = [row |-> ParsedBy(f.by)[i]]
                /\ (f.by = "exportToJiraCSV" /\ matches = <<>>)
                       => f.content = <<BOM, [header |-> JiraFields]>>

\* exportToJiraCSV has written the header-only file of the empty list.
C21_Witness ==
    /\ Exported
    /\ matches = <<>>
    /\ Len(files) = 1
    /\ files[1].by = "exportToJiraCSV"
    /\ Len(files[1].content) = 2
    /\ files[1].content[1] = BOM

\* The month entry of a Task row: the ids of the Task rows are the positions
\* of the entries.
EntryOf(t) == monthEntries[jiraRows[t].WorkItemID]

\* C22: no two Task rows of one export denote the same calendar month: two
\* month groups never have the same numeric (year, month).
C22_OneTaskPerMonth ==
    Exported =>
        \A t, u \in TaskIdx :
            (t # u /\ EntryOf(t).key # OHNE_DATUM /\ EntryOf(u).key # OHNE_DATUM)
                => YearMonthOf(EntryOf(t)) # YearMonthOf(EntryOf(u))

\* C23: a Sub-task row under "ohne-datum" has an empty Due Date, and a
\* non-empty Due Date of a Sub-task row under a month group begins with the
\* key of that group.
C23_DueDateOnlyInMonthGroups ==
    Exported =>
        \A c \in SubTaskIdx :
            \E k \in {monthEntries[jiraRows[c].Parent].key} :
                IF k = OHNE_DATUM
                THEN jiraRows[c].DueDate = <<>>
                ELSE jiraRows[c].DueDate # <<>> => startsWith(jiraRows[c].DueDate, k \o <<"-">>)

C28_HeaderOnlyOrTasksWithChildren ==
    Exported =>
        /\ Len(files) = 1
        /\ files[1].content[2] = [header |-> JiraFields]
        /\ SubSeq(files[1].content, 3, Len(files[1].content))
               = [i \in 1..Len(jiraRows) |-> [row |-> jiraRows[i]]]
        /\ IF matches = <<>>
           THEN /\ Len(files[1].content) = 2
                /\ TaskIdx = {}
                /\ SubTaskIdx = {}
           ELSE /\ TaskIdx # {}
                /\ \A t \in TaskIdx :
                      \E c \in SubTaskIdx : jiraRows[c].Parent = jiraRows[t].WorkItemID

\* Three records in two groups, each Task row with its Sub-task rows.
C28_Witness ==
    /\ Exported
    /\ Len(matches) = 3
    /\ Cardinality(TaskIdx) = 2
    /\ Cardinality(SubTaskIdx) = 3
    /\ Len(files[1].content) = 7

----------------------------------------------------------------------------
(* Properties of a run with failures *)

\* The team part of the file names of team t, of the combined files for 0.
PartOf(t) == IF t = 0 THEN Alle_Teams ELSE sanitizeFilename(TEAMS[t].name)

\* The lists whose calendar generation reported an error.
IcsErrors == {history[k].team : k \in {j \in Hist : history[j].op = "ics" /\ history[j].ph = "error"}}

\* No operation of the run threw.
NothingThrew == \A k \in Hist : history[k].ph # "fail"

\* C24: a run in which the fetch failed for every team writes the four
\* combined files for the empty list and the index page, does not reach the
\* top-level handler and ends with exit status 0.
C24_AllFetchesFailedStillExports ==
    (Exited /\ FetchFailed = 1..Len(TEAMS)) =>
        /\ ExportNames(Alle_Teams) \subseteq Written
        /\ indexHtml \in Written
        /\ ~MainRejected
        /\ exitCode = 0

\* C25: when calendar generation reports an error for a list, exportToICS
\* logs it, writes no calendar file for the list and returns: the Jira
\* export of the same list is the next operation, and a run in which
\* nothing threw writes every other file of every team, the combined files
\* and the index page and ends with exit status 0.
C25_IcsErrorIsLoggedAndSkipped ==
    /\ \A k \in Hist : \E e \in {history[k]} :
          (e.op = "ics" /\ e.ph = "error") =>
              /\ \E c \in 1..Len(console) : console[c] = [text |-> "ICS export error", team |-> e.team]
              /\ fileName(Spiele, PartOf(e.team), timestamp, dotIcs) \notin Written
              /\ IF k < Len(history)
                 THEN history[k + 1].op = "jira" /\ history[k + 1].ph = "begin" /\ history[k + 1].team = e.team
                 ELSE at = "jira" /\ teamIndex = e.team
    /\ (Exited /\ NothingThrew) =>
          /\ exitCode = 0
          /\ indexHtml \in Written
          /\ \A t \in 0..Len(TEAMS) :
                /\ fileName(Spiele, PartOf(t), timestamp, dotCsv) \in Written
                /\ fileName(Spiele, PartOf(t), timestamp, dotXlsx) \in Written
                /\ fileName(Jira_Spiele, PartOf(t), timestamp, dotCsv) \in Written
                /\ fileName(Spiele, PartOf(t), timestamp, dotIcs) \in Written <=> t \notin IcsErrors

\* The calendar of the first team was not generated; its Jira file, the
\* files of the second team, the combined files and the index page were
\* written.
C25_Witness ==
    /\ Exited
    /\ NothingThrew
    /\ IcsErrors = {1}
    /\ Len(files) = 12
    /\ exitCode = 0

====
